---------------------------- MODULE Spec2Model ----------------------------
(***************************************************************************)
(* ESP32 WiFi/BLE provisioning skeleton (src/main.cpp).                    *)
(*                                                                         *)
(* The model has the EEPROM emulation (a RAM buffer and the committed      *)
(* flash image), the three globals wifi_ssid, wifi_password and            *)
(* device_connected, the BLE callbacks (run one at a time by the BLE       *)
(* task), the "WiFi Manager" task keepWiFiAlive and the restart/boot       *)
(* cycle.  A string is a sequence of bytes 1..255; a byte of the store is  *)
(* 0..255.                                                                 *)
(*                                                                         *)
(* Specifications over the same state:                                     *)
(*   SpecStore  the store functions and the write handlers run to          *)
(*              completion one after the other, with values as long as the *)
(*              slots and longer;                                          *)
(*   Spec       the handlers and keepWiFiAlive interleaved statement by    *)
(*              statement, with short values (FairSpec adds the            *)
(*              scheduler's fairness);                                     *)
(*   SpecSeq    whole handlers with keepWiFiAlive and the network;         *)
(*   SpecFault  SpecSeq with field writes whose commit fails;              *)
(*   SpecPoll   keepWiFiAlive with every 100 ms poll of an attempt         *)
(*              (FairPoll adds the scheduler's fairness);                  *)
(*   SpecLed    blinkLED with the link, the network and keepWiFiAlive.     *)
(***************************************************************************)
EXTENDS Integers, Sequences, FiniteSets, TLC

\* ---- program constants ------------------------------------------------
EEPROM_SIZE == 128
SSID_ADDR == 0
PASS_ADDR == 64
WIFI_TIMEOUT_MS == 10000
LED_STEADY_MS == 1000
LED_FAST_MS == 150
LED_SLOW_MS == 1000
POLL_DELAY_MS == 100
BACKOFF_DELAY_MS == 20000
IDLE_DELAY_MS == 30000
ERASED_BYTE == 255

\* ---- bounds of the model ----------------------------------------------
\* Longest value a client writes in Spec.
MaxShortLen == 1
\* A vTaskDelay of the WiFi Manager elapses in this many steps.
DelaySlices == 2
\* In Spec a connection attempt is polled at most this many times: the
\* vTaskDelay(100) of the last poll lasts until the timeout.
MaxPolls == 2
\* Field writes in one behaviour of SpecStore.
MaxWrites == 2

VARIABLES
    sys,              \* "reset" (between ESP.restart/power-on and setup) or "running"
    eeprom,           \* EEPROM library's RAM buffer, 0..EEPROM_SIZE-1 -> byte
    flash,            \* the committed image, what survives a restart
    wifi_ssid,        \* global String wifi_ssid
    wifi_password,    \* global String wifi_password
    device_connected, \* global bool device_connected
    advertising,      \* BLE advertising is on
    wifiStatus,       \* what WiFi.status() returns: "connected" or "disconnected"
    wifiBegun,        \* WiFi.begin was called since boot
    ble_pc,           \* position of the BLE task inside a callback, "idle" between callbacks
    ble_event,        \* the onWrite the BLE task runs or ran last, "none" after boot
    ble_value,        \* local std::string value of the running onWrite
    ble_old,          \* the field's content when the running onWrite started
    ssid_char,        \* value of the SSID characteristic, what a client reads
    nm_pc,            \* position of keepWiFiAlive
    nm_wait,          \* slices left of the vTaskDelay keepWiFiAlive is in
    nm_elapsed,       \* millis() - startAttemptTime
    nm_dropped,       \* the connection dropped during the vTaskDelay(30000) in progress
    nm_seen,          \* what WiFi.status() returned in the last test of the poll loop
    writes,           \* the last two completed writeStringToEEPROM calls, newest first
    lastIdent,        \* the identifier written last since power-on, <<>> if none
    loaded,           \* what the last loadCredentials returned, <<>> if it never ran
    storeOps,         \* field writes so far (counted in SpecStore only)
    bootCreds,        \* what setup() loaded at this boot, <<>> before setup
    led_pc,           \* position of blinkLED
    led_pattern,      \* the branch blinkLED took at its last evaluation
    led_out,          \* level of LED_BUILTIN
    led_delay,        \* length in ms of the vTaskDelay blinkLED is in, 0 if none
    commit_failed     \* EEPROM.commit() returned false in the field write made last

vars == <<sys, eeprom, flash, wifi_ssid, wifi_password, device_connected,
          advertising, wifiStatus, wifiBegun, ble_pc, ble_event, ble_value, ble_old,
          ssid_char, nm_pc, nm_wait, nm_elapsed, nm_dropped, nm_seen, writes,
          lastIdent, loaded, storeOps, bootCreds, led_pc, led_pattern, led_out,
          led_delay, commit_failed>>

storeVars == <<eeprom, flash>>
credVars == <<wifi_ssid, wifi_password>>
bleVars == <<ble_pc, ble_event, ble_value, ble_old, ssid_char>>
linkVars == <<device_connected, advertising>>
netVars == <<wifiStatus, wifiBegun>>
nmVars == <<nm_pc, nm_wait, nm_elapsed, nm_dropped, nm_seen>>
ledVars == <<led_pc, led_pattern, led_out, led_delay>>

\* ---- slots --------------------------------------------------------------
Addresses == 0 .. (EEPROM_SIZE - 1)
\* "64 for SSID, 64 for password"
SlotWidth == PASS_ADDR - SSID_ADDR
SsidSlot == SSID_ADDR .. (PASS_ADDR - 1)
PassSlot == PASS_ADDR .. (EEPROM_SIZE - 1)
SlotAddr(slot) == IF slot = "ssid" THEN SSID_ADDR ELSE PASS_ADDR
SlotRange(slot) == IF slot = "ssid" THEN SsidSlot ELSE PassSlot

\* ---- strings ------------------------------------------------------------
\* A text of n characters starting from character c; the characters differ
\* from place to place so that a prefix is told from any other part.
Text(c, n) == [i \in 1 .. n |-> c + (i % 3)]
Prefix(s, n) == IF n >= Len(s) THEN s ELSE SubSeq(s, 1, n)

\* String(const char*): the bytes before the first zero byte.
CString(data) ==
    LET zeros == {i \in 1 .. Len(data) : data[i] = 0}
    IN  IF zeros = {} THEN data
        ELSE SubSeq(data, 1, (CHOOSE i \in zeros : \A j \in zeros : i <= j) - 1)

\* ---- EEPROM library (ESP32 Arduino core) -------------------------------
\* EEPROM.read: an address outside the buffer reads as 0.
EEPROM_read(mem, address) ==
    IF address < 0 \/ address >= EEPROM_SIZE THEN 0 ELSE mem[address]

\* EEPROM.write: an address outside the buffer is ignored.
EEPROM_write(mem, address, val) ==
    IF address < 0 \/ address >= EEPROM_SIZE THEN mem
    ELSE [mem EXCEPT ![address] = val]

\* A commit that never reaches the flash.
EEPROM_commitLost(mem, image) == image

\* EEPROM.commit: the RAM buffer becomes the flash image.
EEPROM_commit(mem, image) == mem

\* EEPROM.begin: the RAM buffer is read back from the flash image.
EEPROM_begin(image) == image

\* ---- readStringFromEEPROM ----------------------------------------------
\* The while loop of readStringFromEEPROM.  Iteration len reads the byte at
\* address + len into data[len]; the loop is left before iteration len when
\* the byte read last (the one at address before the loop) is 0 or len has
\* reached EEPROM_SIZE.  ReadCount is len after the loop.
ReadCount(mem, address) ==
    IF EEPROM_read(mem, address) = 0 THEN 0
    ELSE LET stops == {len \in 1 .. EEPROM_SIZE :
                          \/ EEPROM_read(mem, address + len - 1) = 0
                          \/ len = EEPROM_SIZE}
         IN  CHOOSE len \in stops : \A other \in stops : len <= other

\* data[0 .. len-1] after the loop.
ReadData(mem, address) ==
    [i \in 1 .. ReadCount(mem, address) |-> EEPROM_read(mem, address + i - 1)]

\* data[len] = '\0' with len = EEPROM_SIZE stores one byte past char data[EEPROM_SIZE].
ReadOverflows(mem, address) == Len(ReadData(mem, address)) >= EEPROM_SIZE

\* The String returned when the function returns.
readStringFromEEPROM(mem, address) ==
    CString(Append(ReadData(mem, address), 0))

\* The addresses EEPROM.read is called with.
ReadAddresses(mem, address) ==
    {address} \cup {address + i : i \in 0 .. (Len(ReadData(mem, address)) - 1)}

\* ---- writeStringToEEPROM -----------------------------------------------
\* The for loop: EEPROM.write(address + i, str[i]) for i = 0 .. length-1.  Byte
\* a of the buffer is written once, by iteration a - address, when that is an
\* iteration of the loop.
WriteLoop(mem, address, str) ==
    [a \in Addresses |->
        IF a - address >= 0 /\ a - address < Len(str)
        THEN EEPROM_write(mem, a, str[a - address + 1])[a]
        ELSE mem[a]]

\* writeStringToEEPROM without the line that null-terminates the string.
WriteBufferNoTerminator(mem, address, str) == WriteLoop(mem, address, str)

WriteBuffer(mem, address, str) ==
    EEPROM_write(WriteLoop(mem, address, str), address + Len(str), 0)

\* The store <<eeprom, flash>> after writeStringToEEPROM(address, str).
writeStringToEEPROM(mem, image, address, str) ==
    LET buf == WriteBuffer(mem, address, str)
    IN  <<buf, EEPROM_commit(buf, image)>>

\* The addresses EEPROM.write is called with.
WriteAddresses(address, str) == address .. (address + Len(str))

\* ---- loadCredentials ---------------------------------------------------
loadCredentials(image) ==
    LET mem == EEPROM_begin(image)
    IN  <<readStringFromEEPROM(mem, SSID_ADDR), readStringFromEEPROM(mem, PASS_ADDR)>>

LoadOverflows(image) ==
    ReadOverflows(image, SSID_ADDR) \/ ReadOverflows(image, PASS_ADDR)

\* ---- the store at power-on ----------------------------------------------
Blank(b) == [a \in Addresses |-> b]
InitStores ==
    { Blank(0),
      Blank(ERASED_BYTE),
      WriteBuffer(WriteBuffer(Blank(ERASED_BYTE), SSID_ADDR, Text(65, 1)),
                  PASS_ADDR, Text(80, 1)) }

NoRecord == <<>>
Remember(slot, str) == Prefix(<<[slot |-> slot, value |-> str]>> \o writes, 2)

Init ==
    /\ sys = "reset"
    /\ flash \in InitStores
    /\ eeprom = flash
    /\ wifi_ssid = <<>>
    /\ wifi_password = <<>>
    /\ device_connected = FALSE
    /\ advertising = FALSE
    /\ wifiStatus = "disconnected"
    /\ wifiBegun = FALSE
    /\ ble_pc = "idle"
    /\ ble_event = "none"
    /\ ble_value = <<>>
    /\ ble_old = <<>>
    /\ nm_pc = "stopped"
    /\ nm_wait = 0
    /\ nm_elapsed = 0
    /\ nm_dropped = FALSE
    /\ writes = NoRecord
    /\ lastIdent = <<>>
    /\ loaded = <<>>
    /\ storeOps = 0
    /\ ssid_char = <<>>
    /\ nm_seen = "none"
    /\ bootCreds = <<>>
    /\ led_pc = "stopped"
    /\ led_pattern = "none"
    /\ led_out = "low"
    /\ led_delay = 0
    /\ commit_failed = FALSE

\* ---- restart and boot ---------------------------------------------------
\* ESP.restart(): RAM is lost, every task stops, the radio and WiFi go down.
ResetRam ==
    /\ sys' = "reset"
    /\ wifi_ssid' = <<>>
    /\ wifi_password' = <<>>
    /\ device_connected' = FALSE
    /\ advertising' = FALSE
    /\ wifiStatus' = "disconnected"
    /\ wifiBegun' = FALSE
    /\ ble_pc' = "idle"
    /\ ble_event' = "none"
    /\ ble_value' = <<>>
    /\ ble_old' = <<>>
    /\ nm_pc' = "stopped"
    /\ nm_wait' = 0
    /\ nm_elapsed' = 0
    /\ nm_dropped' = FALSE
    /\ loaded' = <<>>
    /\ ssid_char' = <<>>
    /\ nm_seen' = "none"
    /\ bootCreds' = <<>>
    /\ led_pc' = "stopped"
    /\ led_pattern' = "none"
    /\ led_out' = "low"
    /\ led_delay' = 0

\* setup(): loadCredentials, the BLE server and advertising, then the tasks.
Setup ==
    /\ sys = "reset"
    /\ sys' = "running"
    /\ eeprom' = EEPROM_begin(flash)
    /\ LET got == loadCredentials(flash)
       IN  /\ wifi_ssid' = got[1]
           /\ wifi_password' = got[2]
           /\ loaded' = got
           /\ bootCreds' = got
           /\ ssid_char' = got[1]
    /\ advertising' = TRUE
    /\ nm_pc' = "check_ssid"
    /\ led_pc' = "check_wifi"
    /\ UNCHANGED <<flash, device_connected, wifiStatus, wifiBegun, ble_pc, ble_event,
                   ble_value, ble_old, nm_wait, nm_elapsed, nm_dropped, nm_seen,
                   writes, lastIdent, storeOps, led_pattern, led_out, led_delay,
                   commit_failed>>

\* The other outcome of the out-of-bounds store in readStringFromEEPROM:
\* the stack is damaged, the chip panics and reboots.
SetupPanic ==
    /\ sys = "reset"
    /\ LoadOverflows(flash)
    /\ UNCHANGED vars

\* ---- SpecStore: the functions and handlers run to completion -----------
StoreLens ==
    {0, 1, SlotWidth - 1, SlotWidth, SlotWidth + 1, EEPROM_SIZE + 1}
StoreValues == {Text(97, n) : n \in StoreLens}

\* A call of loadCredentials().
FnLoad ==
    /\ sys = "running"
    /\ LET got == loadCredentials(flash)
       IN  /\ wifi_ssid' = got[1]
           /\ wifi_password' = got[2]
           /\ loaded' = got
    /\ eeprom' = EEPROM_begin(flash)
    /\ UNCHANGED <<sys, flash, linkVars, netVars, bleVars, nmVars, writes, lastIdent, storeOps, bootCreds, ledVars, commit_failed>>

\* SSIDCallbacks::onWrite from entry to return.
SeqSSIDWrite(value) ==
    /\ sys = "running"
    /\ storeOps < MaxWrites
    /\ storeOps' = storeOps + 1
    /\ IF Len(value) > 0
       THEN LET store == writeStringToEEPROM(eeprom, flash, SSID_ADDR, value)
            IN  /\ wifi_ssid' = value
                /\ eeprom' = store[1]
                /\ flash' = store[2]
                /\ writes' = Remember("ssid", value)
                /\ lastIdent' = value
                /\ loaded' = <<>>
       ELSE UNCHANGED <<wifi_ssid, eeprom, flash, writes, lastIdent, loaded>>
    /\ ble_event' = "ssid_write"
    /\ ssid_char' = value
    /\ commit_failed' = FALSE
    /\ UNCHANGED <<sys, wifi_password, linkVars, netVars, ble_pc, ble_value, ble_old,
                   nmVars, bootCreds, ledVars>>

\* A secret handler that clears wifi_password before it tests the length.
SeqPassWriteClearsFirst(value) ==
    /\ sys = "running"
    /\ storeOps < MaxWrites
    /\ storeOps' = storeOps + 1
    /\ commit_failed' = FALSE
    /\ IF Len(value) > 0
       THEN LET store == writeStringToEEPROM(eeprom, flash, PASS_ADDR, value)
            IN  /\ ResetRam
                /\ flash' = store[2]
                /\ eeprom' = store[2]
                /\ writes' = Remember("pass", value)
                /\ lastIdent' = lastIdent
       ELSE /\ ble_event' = "pass_write"
            /\ wifi_password' = <<>>
            /\ UNCHANGED <<sys, storeVars, wifi_ssid, linkVars, netVars, ble_pc,
                           ble_value, ble_old, ssid_char, nmVars, writes,
                           lastIdent, loaded, bootCreds, ledVars>>

\* PasswordCallbacks::onWrite from entry to ESP.restart() (or to return).
SeqPassWrite(value) ==
    /\ sys = "running"
    /\ storeOps < MaxWrites
    /\ storeOps' = storeOps + 1
    /\ commit_failed' = FALSE
    /\ IF Len(value) > 0
       THEN LET store == writeStringToEEPROM(eeprom, flash, PASS_ADDR, value)
            IN  /\ ResetRam
                /\ flash' = store[2]
                /\ eeprom' = store[2]
                /\ writes' = Remember("pass", value)
                /\ lastIdent' = lastIdent
       ELSE /\ ble_event' = "pass_write"
            /\ UNCHANGED <<sys, storeVars, credVars, linkVars, netVars, ble_pc,
                           ble_value, ble_old, ssid_char, nmVars, writes,
                           lastIdent, loaded, bootCreds, ledVars>>

NextStore ==
    \/ Setup
    \/ SetupPanic
    \/ FnLoad
    \/ \E value \in StoreValues : SeqSSIDWrite(value)
    \/ \E value \in StoreValues : SeqPassWrite(value)

SpecStore == Init /\ [][NextStore]_vars

\* ---- Spec: the BLE task, statement by statement -------------------------
BleValues == {Text(97, n) : n \in 0 .. MaxShortLen}

\* ServerCallbacks::onConnect.  A client connects to an advertising device;
\* the BLE stack stops advertising while the connection lasts.
OnConnect ==
    /\ sys = "running" /\ ble_pc = "idle"
    /\ advertising /\ ~device_connected
    /\ device_connected' = TRUE
    /\ advertising' = FALSE
    /\ UNCHANGED <<sys, storeVars, credVars, netVars, bleVars, nmVars, writes,
                   lastIdent, loaded, storeOps, bootCreds, ledVars, commit_failed>>

\* An onDisconnect that does not start advertising again.
OnDisconnectNoAdvertise ==
    /\ sys = "running" /\ ble_pc = "idle"
    /\ device_connected
    /\ device_connected' = FALSE
    /\ UNCHANGED <<sys, storeVars, credVars, advertising, netVars, bleVars, nmVars,
                   writes, lastIdent, loaded, storeOps, bootCreds, ledVars, commit_failed>>

\* ServerCallbacks::onDisconnect.
OnDisconnect ==
    /\ sys = "running" /\ ble_pc = "idle"
    /\ device_connected
    /\ device_connected' = FALSE
    /\ advertising' = TRUE
    /\ UNCHANGED <<sys, storeVars, credVars, netVars, bleVars, nmVars, writes,
                   lastIdent, loaded, storeOps, bootCreds, ledVars, commit_failed>>

\* Entry of SSIDCallbacks::onWrite: getValue() and the length test.
SSIDOnWrite(value) ==
    /\ sys = "running" /\ ble_pc = "idle"
    /\ device_connected
    /\ ble_event' = "ssid_write"
    /\ ble_value' = value
    /\ ssid_char' = value
    /\ IF Len(value) > 0
       THEN ble_pc' = "ssid_clear" /\ ble_old' = wifi_ssid
       ELSE UNCHANGED <<ble_pc, ble_old>>
    /\ UNCHANGED <<sys, storeVars, credVars, linkVars, netVars, nmVars, writes, lastIdent,
                   loaded, storeOps, bootCreds, ledVars, commit_failed>>

\* wifi_ssid = "";
SSIDClear ==
    /\ sys = "running" /\ ble_pc = "ssid_clear"
    /\ wifi_ssid' = <<>>
    /\ ble_pc' = "ssid_append"
    /\ UNCHANGED <<sys, storeVars, wifi_password, linkVars, netVars, ble_event, ssid_char,
                   ble_value, ble_old, nmVars, writes, lastIdent, loaded, storeOps, bootCreds, ledVars, commit_failed>>

\* wifi_ssid += value[i]; i is the number of characters appended so far.
SSIDAppend ==
    /\ sys = "running" /\ ble_pc = "ssid_append"
    /\ Len(wifi_ssid) < Len(ble_value)
    /\ wifi_ssid' = Append(wifi_ssid, ble_value[Len(wifi_ssid) + 1])
    /\ UNCHANGED <<sys, storeVars, wifi_password, linkVars, netVars, bleVars,
                   nmVars, writes, lastIdent, loaded, storeOps, bootCreds, ledVars, commit_failed>>

\* The loop is over: writeStringToEEPROM(SSID_ADDR, wifi_ssid), and return.
SSIDStore ==
    /\ sys = "running" /\ ble_pc = "ssid_append"
    /\ Len(wifi_ssid) >= Len(ble_value)
    /\ LET store == writeStringToEEPROM(eeprom, flash, SSID_ADDR, wifi_ssid)
       IN  eeprom' = store[1] /\ flash' = store[2]
    /\ writes' = Remember("ssid", wifi_ssid)
    /\ lastIdent' = wifi_ssid
    /\ loaded' = <<>>
    /\ ble_pc' = "idle"
    /\ ble_old' = <<>>
    /\ ble_value' = <<>>
    /\ UNCHANGED <<sys, credVars, linkVars, netVars, ble_event, ssid_char, nmVars, storeOps, bootCreds, ledVars, commit_failed>>

\* Entry of PasswordCallbacks::onWrite.
PassOnWrite(value) ==
    /\ sys = "running" /\ ble_pc = "idle"
    /\ device_connected
    /\ ble_event' = "pass_write"
    /\ ble_value' = value
    /\ IF Len(value) > 0
       THEN ble_pc' = "pass_clear" /\ ble_old' = wifi_password
       ELSE UNCHANGED <<ble_pc, ble_old>>
    /\ UNCHANGED <<ssid_char, sys, storeVars, credVars, linkVars, netVars, nmVars, writes, lastIdent,
                   loaded, storeOps, bootCreds, ledVars, commit_failed>>

\* wifi_password = "";
PassClear ==
    /\ sys = "running" /\ ble_pc = "pass_clear"
    /\ wifi_password' = <<>>
    /\ ble_pc' = "pass_append"
    /\ UNCHANGED <<sys, storeVars, wifi_ssid, linkVars, netVars, ble_event, ssid_char,
                   ble_value, ble_old, nmVars, writes, lastIdent, loaded, storeOps, bootCreds, ledVars, commit_failed>>

\* wifi_password += value[i];
PassAppend ==
    /\ sys = "running" /\ ble_pc = "pass_append"
    /\ Len(wifi_password) < Len(ble_value)
    /\ wifi_password' = Append(wifi_password, ble_value[Len(wifi_password) + 1])
    /\ UNCHANGED <<sys, storeVars, wifi_ssid, linkVars, netVars, bleVars,
                   nmVars, writes, lastIdent, loaded, storeOps, bootCreds, ledVars, commit_failed>>

\* A handler that restarts without having stored the secret.
PassStoreSkipped ==
    /\ sys = "running" /\ ble_pc = "pass_append"
    /\ Len(wifi_password) >= Len(ble_value)
    /\ writes' = Remember("pass", wifi_password)
    /\ lastIdent' = lastIdent
    /\ loaded' = <<>>
    /\ ble_pc' = "pass_delay"
    /\ ble_old' = <<>>
    /\ UNCHANGED <<sys, storeVars, credVars, linkVars, netVars, ble_event, ssid_char, ble_value,
                   nmVars, storeOps, bootCreds, ledVars, commit_failed>>

\* writeStringToEEPROM(PASS_ADDR, wifi_password); then delay(1000) begins.
PassStore ==
    /\ sys = "running" /\ ble_pc = "pass_append"
    /\ Len(wifi_password) >= Len(ble_value)
    /\ LET store == writeStringToEEPROM(eeprom, flash, PASS_ADDR, wifi_password)
       IN  eeprom' = store[1] /\ flash' = store[2]
    /\ writes' = Remember("pass", wifi_password)
    /\ lastIdent' = lastIdent
    /\ loaded' = <<>>
    /\ ble_pc' = "pass_delay"
    /\ ble_old' = <<>>
    /\ UNCHANGED <<sys, credVars, linkVars, netVars, ble_event, ssid_char, ble_value, nmVars,
                   storeOps, bootCreds, ledVars, commit_failed>>

\* delay(1000) is over: ESP.restart().
PassRestart ==
    /\ sys = "running" /\ ble_pc = "pass_delay"
    /\ ResetRam
    /\ eeprom' = flash
    /\ UNCHANGED <<flash, writes, lastIdent, storeOps, commit_failed>>

BleStep ==
    \/ SSIDClear \/ SSIDAppend \/ SSIDStore
    \/ PassClear \/ PassAppend \/ PassStore \/ PassRestart

\* ---- Spec: the network --------------------------------------------------
\* WiFi.status() becomes WL_CONNECTED: only once WiFi.begin has started the
\* station (the stack also reconnects by itself after a drop).
NetUp ==
    /\ sys = "running" /\ wifiBegun
    /\ wifiStatus = "disconnected"
    /\ wifiStatus' = "connected"
    /\ UNCHANGED <<sys, storeVars, credVars, linkVars, wifiBegun, bleVars, nmVars,
                   writes, lastIdent, loaded, storeOps, bootCreds, ledVars, commit_failed>>

\* The connection drops.
NetDown ==
    /\ sys = "running"
    /\ wifiStatus = "connected"
    /\ wifiStatus' = "disconnected"
    /\ nm_dropped' = (nm_pc = "idle_delay")
    /\ UNCHANGED <<sys, storeVars, credVars, linkVars, wifiBegun, bleVars, nm_pc,
                   nm_wait, nm_elapsed, nm_seen, writes, lastIdent, loaded, storeOps, bootCreds, ledVars, commit_failed>>

\* ---- Spec: keepWiFiAlive -------------------------------------------------
NMOnly == <<sys, storeVars, credVars, linkVars, bleVars, writes, lastIdent, loaded,
           storeOps, bootCreds, ledVars, commit_failed>>

\* if (wifi_ssid.length() > 0) ... else "SSID not configured", then the
\* vTaskDelay(30000) at the end of the loop body begins.
NMCheckSsid ==
    /\ sys = "running" /\ nm_pc = "check_ssid"
    /\ IF Len(wifi_ssid) > 0
       THEN nm_pc' = "check_status" /\ nm_wait' = nm_wait
       ELSE nm_pc' = "idle_delay" /\ nm_wait' = DelaySlices
    /\ UNCHANGED <<NMOnly, netVars, nm_elapsed, nm_dropped, nm_seen>>

\* A status check that starts an attempt whatever WiFi.status() returns.
NMCheckStatusAlwaysBegins ==
    /\ sys = "running" /\ nm_pc = "check_status"
    /\ nm_pc' = "begin" /\ nm_wait' = nm_wait
    /\ UNCHANGED <<NMOnly, netVars, nm_elapsed, nm_dropped, nm_seen>>

\* if (WiFi.status() != WL_CONNECTED)
NMCheckStatus ==
    /\ sys = "running" /\ nm_pc = "check_status"
    /\ IF wifiStatus # "connected"
       THEN nm_pc' = "begin" /\ nm_wait' = nm_wait
       ELSE nm_pc' = "idle_delay" /\ nm_wait' = DelaySlices
    /\ UNCHANGED <<NMOnly, netVars, nm_elapsed, nm_dropped, nm_seen>>

\* WiFi.mode(WIFI_STA); WiFi.begin(wifi_ssid.c_str(), wifi_password.c_str());
\* startAttemptTime = millis();
NMBegin ==
    /\ sys = "running" /\ nm_pc = "begin"
    /\ wifiBegun' = TRUE
    /\ nm_elapsed' = 0
    /\ nm_pc' = "poll"
    /\ UNCHANGED <<NMOnly, wifiStatus, nm_wait, nm_dropped, nm_seen>>

\* A poll loop without the timeout.
NMPollNoTimeout(polls) ==
    /\ sys = "running" /\ nm_pc = "poll"
    /\ IF wifiStatus # "connected"
       THEN nm_elapsed' = 0 /\ nm_pc' = nm_pc
       ELSE nm_elapsed' = nm_elapsed /\ nm_pc' = "result"
    /\ nm_seen' = wifiStatus
    /\ UNCHANGED <<NMOnly, netVars, nm_wait, nm_dropped>>

\* while (WiFi.status() != WL_CONNECTED && millis() - startAttemptTime <
\* WIFI_TIMEOUT_MS) vTaskDelay(100): one test of the condition, and the delay
\* when it holds.  vTaskDelay gives a shortest delay only: the delay lasts
\* POLL_DELAY_MS, and the one of poll number `polls` lasts until the timeout.
NMPollWithin(polls) ==
    /\ sys = "running" /\ nm_pc = "poll"
    /\ IF wifiStatus # "connected" /\ nm_elapsed < WIFI_TIMEOUT_MS
       THEN /\ nm_elapsed' = IF nm_elapsed + POLL_DELAY_MS >= polls * POLL_DELAY_MS
                             THEN WIFI_TIMEOUT_MS
                             ELSE nm_elapsed + POLL_DELAY_MS
            /\ nm_pc' = nm_pc
       ELSE nm_elapsed' = nm_elapsed /\ nm_pc' = "result"
    /\ nm_seen' = wifiStatus
    /\ UNCHANGED <<NMOnly, netVars, nm_wait, nm_dropped>>

NMPoll == NMPollWithin(MaxPolls)

\* if (WiFi.status() != WL_CONNECTED) "Connection Failed!", vTaskDelay(20000)
\* begins; else "Connected!", and the vTaskDelay(30000) of the loop begins.
NMResult ==
    /\ sys = "running" /\ nm_pc = "result"
    /\ IF wifiStatus # "connected"
       THEN nm_pc' = "backoff"
       ELSE nm_pc' = "idle_delay"
    /\ nm_wait' = DelaySlices
    /\ nm_elapsed' = 0
    /\ nm_seen' = "none"
    /\ UNCHANGED <<NMOnly, netVars, nm_dropped>>

\* A backoff after which the task gives up.
NMBackoffGivesUp ==
    /\ sys = "running" /\ nm_pc = "backoff"
    /\ IF nm_wait > 1
       THEN nm_wait' = nm_wait - 1 /\ nm_pc' = nm_pc
       ELSE nm_wait' = 0 /\ nm_pc' = "stopped"
    /\ UNCHANGED <<NMOnly, netVars, nm_elapsed, nm_dropped, nm_seen>>

\* vTaskDelay(20000 / portTICK_PERIOD_MS) passes, slice by slice; after it the
\* vTaskDelay(30000) at the end of the loop body begins.
NMBackoff ==
    /\ sys = "running" /\ nm_pc = "backoff"
    /\ IF nm_wait > 1
       THEN nm_wait' = nm_wait - 1 /\ nm_pc' = nm_pc
       ELSE nm_wait' = DelaySlices /\ nm_pc' = "idle_delay"
    /\ UNCHANGED <<NMOnly, netVars, nm_elapsed, nm_dropped, nm_seen>>

\* A sleep that a dropped connection cuts short.
NMIdleDelayWokenByDrop ==
    /\ sys = "running" /\ nm_pc = "idle_delay"
    /\ IF nm_wait > 1 /\ ~nm_dropped
       THEN nm_wait' = nm_wait - 1 /\ nm_pc' = nm_pc /\ nm_dropped' = nm_dropped
       ELSE nm_wait' = 0 /\ nm_pc' = "check_ssid" /\ nm_dropped' = FALSE
    /\ UNCHANGED <<NMOnly, netVars, nm_elapsed, nm_seen>>

\* vTaskDelay(30000 / portTICK_PERIOD_MS) passes, slice by slice; after it the
\* for (;;) loop starts over.
NMIdleDelay ==
    /\ sys = "running" /\ nm_pc = "idle_delay"
    /\ IF nm_wait > 1
       THEN nm_wait' = nm_wait - 1 /\ nm_pc' = nm_pc /\ nm_dropped' = nm_dropped
       ELSE nm_wait' = 0 /\ nm_pc' = "check_ssid" /\ nm_dropped' = FALSE
    /\ UNCHANGED <<NMOnly, netVars, nm_elapsed, nm_seen>>

NMStep ==
    \/ NMCheckSsid \/ NMCheckStatus \/ NMBegin \/ NMPoll \/ NMResult
    \/ NMBackoff \/ NMIdleDelay

Next ==
    \/ Setup
    \/ SetupPanic
    \/ OnConnect
    \/ OnDisconnect
    \/ \E value \in BleValues : SSIDOnWrite(value)
    \/ \E value \in BleValues : PassOnWrite(value)
    \/ BleStep
    \/ NetUp
    \/ NetDown
    \/ NMStep

Spec == Init /\ [][Next]_vars

\* The FreeRTOS scheduler runs every ready task and every delay ends: a step
\* of keepWiFiAlive, and a step of a running BLE callback, is taken in the end.
FairSpec == Spec /\ WF_vars(NMStep) /\ WF_vars(BleStep)

\* ---- SpecSeq: whole handlers, with keepWiFiAlive and the network --------
SeqLens == {0, 1, SlotWidth - 1}
SeqValues == {Text(97, n) : n \in SeqLens}

NextSeq ==
    \/ Setup
    \/ SetupPanic
    \/ \E value \in SeqValues : SeqSSIDWrite(value)
    \/ \E value \in SeqValues : SeqPassWrite(value)
    \/ NetUp
    \/ NetDown
    \/ NMStep

SpecSeq == Init /\ [][NextSeq]_vars

\* ---- SpecFault: field writes whose commit fails ----------------------------
\* EEPROM.commit() returning false: the bytes stay in the RAM buffer and the
\* flash image is left as it was.
EEPROM_commitFails(mem, image) == image

\* The store <<eeprom, flash>> after writeStringToEEPROM(address, str) when
\* the commit fails; the function does not look at what commit() returns.
writeStringToEEPROMFault(mem, image, address, str) ==
    LET buf == WriteBuffer(mem, address, str)
    IN  <<buf, EEPROM_commitFails(buf, image)>>

\* An SSID handler that undoes the assignment of wifi_ssid when the commit fails.
SeqSSIDWriteFaultRollsBack(value) ==
    /\ sys = "running"
    /\ storeOps < MaxWrites
    /\ Len(value) > 0
    /\ storeOps' = storeOps + 1
    /\ LET store == writeStringToEEPROMFault(eeprom, flash, SSID_ADDR, value)
       IN  /\ eeprom' = store[1]
           /\ flash' = store[2]
    /\ writes' = Remember("ssid", value)
    /\ lastIdent' = value
    /\ loaded' = <<>>
    /\ ble_event' = "ssid_write"
    /\ ssid_char' = value
    /\ commit_failed' = TRUE
    /\ UNCHANGED <<sys, wifi_ssid, wifi_password, linkVars, netVars, ble_pc, ble_value,
                   ble_old, nmVars, bootCreds, ledVars>>

\* SSIDCallbacks::onWrite from entry to return, for a non-empty value whose
\* commit fails.
SeqSSIDWriteFault(value) ==
    /\ sys = "running"
    /\ storeOps < MaxWrites
    /\ Len(value) > 0
    /\ storeOps' = storeOps + 1
    /\ LET store == writeStringToEEPROMFault(eeprom, flash, SSID_ADDR, value)
       IN  /\ wifi_ssid' = value
           /\ eeprom' = store[1]
           /\ flash' = store[2]
    /\ writes' = Remember("ssid", value)
    /\ lastIdent' = value
    /\ loaded' = <<>>
    /\ ble_event' = "ssid_write"
    /\ ssid_char' = value
    /\ commit_failed' = TRUE
    /\ UNCHANGED <<sys, wifi_password, linkVars, netVars, ble_pc, ble_value, ble_old,
                   nmVars, bootCreds, ledVars>>

\* PasswordCallbacks::onWrite from entry to ESP.restart(), for a non-empty
\* value whose commit fails.
SeqPassWriteFault(value) ==
    /\ sys = "running"
    /\ storeOps < MaxWrites
    /\ Len(value) > 0
    /\ storeOps' = storeOps + 1
    /\ commit_failed' = TRUE
    /\ LET store == writeStringToEEPROMFault(eeprom, flash, PASS_ADDR, value)
       IN  /\ ResetRam
           /\ flash' = store[2]
           /\ eeprom' = store[2]
           /\ writes' = Remember("pass", value)
           /\ lastIdent' = lastIdent

NextFault ==
    \/ Setup
    \/ SetupPanic
    \/ \E value \in SeqValues : SeqSSIDWrite(value)
    \/ \E value \in SeqValues : SeqPassWrite(value)
    \/ \E value \in SeqValues : SeqSSIDWriteFault(value)
    \/ \E value \in SeqValues : SeqPassWriteFault(value)
    \/ NetUp
    \/ NetDown
    \/ NMStep

SpecFault == Init /\ [][NextFault]_vars

\* ---- SpecPoll: keepWiFiAlive with every poll of the attempt ---------------
\* The poll loop at its full resolution: WIFI_TIMEOUT_MS / 100 polls.
NMPollFull == NMPollWithin(WIFI_TIMEOUT_MS \div POLL_DELAY_MS)

NMStepFull ==
    \/ NMCheckSsid \/ NMCheckStatus \/ NMBegin \/ NMPollFull \/ NMResult
    \/ NMBackoff \/ NMIdleDelay

NextPoll ==
    \/ Setup
    \/ SetupPanic
    \/ NetUp
    \/ NetDown
    \/ NMStepFull

SpecPoll == Init /\ [][NextPoll]_vars

\* The scheduler runs keepWiFiAlive and its delays end.
FairPoll == SpecPoll /\ WF_vars(NMStepFull)

\* ---- blinkLED ------------------------------------------------------------
LedOnly == <<sys, storeVars, credVars, linkVars, netVars, bleVars, nmVars, writes,
            lastIdent, loaded, storeOps, bootCreds, commit_failed>>

\* A blinkLED that never takes the WiFi branch.
LedCheckWifiSkipped ==
    /\ sys = "running" /\ led_pc = "check_wifi"
    /\ led_pc' = "check_link"
    /\ UNCHANGED <<LedOnly, led_pattern, led_out, led_delay>>

\* if (WiFi.status() == WL_CONNECTED) { digitalWrite(HIGH); vTaskDelay(1000) }
LedCheckWifi ==
    /\ sys = "running" /\ led_pc = "check_wifi"
    /\ IF wifiStatus = "connected"
       THEN /\ led_pattern' = "steady"
            /\ led_out' = "high"
            /\ led_delay' = LED_STEADY_MS
            /\ led_pc' = "steady_delay"
       ELSE /\ led_pc' = "check_link"
            /\ UNCHANGED <<led_pattern, led_out, led_delay>>
    /\ UNCHANGED LedOnly

\* else if (device_connected) { HIGH, vTaskDelay(150), ... } else { HIGH,
\* vTaskDelay(1000), ... }: the branch is taken and its first half begins.
LedCheckLink ==
    /\ sys = "running" /\ led_pc = "check_link"
    /\ IF device_connected
       THEN led_pattern' = "fast" /\ led_delay' = LED_FAST_MS
       ELSE led_pattern' = "slow" /\ led_delay' = LED_SLOW_MS
    /\ led_out' = "high"
    /\ led_pc' = "on_delay"
    /\ UNCHANGED LedOnly

\* The first vTaskDelay of a blink is over: digitalWrite(LOW) and the second
\* vTaskDelay, of the same length.
LedOnDelay ==
    /\ sys = "running" /\ led_pc = "on_delay"
    /\ led_out' = "low"
    /\ led_pc' = "off_delay"
    /\ UNCHANGED <<LedOnly, led_pattern, led_delay>>

\* The second vTaskDelay of a blink is over: the loop starts over.
LedOffDelay ==
    /\ sys = "running" /\ led_pc = "off_delay"
    /\ led_delay' = 0
    /\ led_pc' = "check_wifi"
    /\ UNCHANGED <<LedOnly, led_pattern, led_out>>

\* The vTaskDelay(1000) of the WiFi branch is over: the loop starts over.
LedSteadyDelay ==
    /\ sys = "running" /\ led_pc = "steady_delay"
    /\ led_delay' = 0
    /\ led_pc' = "check_wifi"
    /\ UNCHANGED <<LedOnly, led_pattern, led_out>>

LedStep ==
    \/ LedCheckWifi \/ LedCheckLink \/ LedOnDelay \/ LedOffDelay \/ LedSteadyDelay

\* ---- SpecLed: blinkLED with the link, the network and keepWiFiAlive -------
\* blinkLED is left out of the other specifications: it writes nothing they
\* read (C12).
NextLed ==
    \/ Setup
    \/ SetupPanic
    \/ OnConnect
    \/ OnDisconnect
    \/ NetUp
    \/ NetDown
    \/ NMStep
    \/ LedStep

SpecLed == Init /\ [][NextLed]_vars

\* ---- the store claims (SpecStore) ---------------------------------------
FieldIndex(slot) == IF slot = "ssid" THEN 1 ELSE 2
Fits(str) == Len(str) >= 1 /\ Len(str) <= SlotWidth - 1

\* The last two writeStringToEEPROM calls went to the two slots, each with a
\* value of 1 .. 63 characters, and loadCredentials has run since.
WroteBothThenLoaded ==
    /\ loaded # <<>>
    /\ Len(writes) = 2
    /\ writes[1].slot # writes[2].slot
    /\ Fits(writes[1].value)
    /\ Fits(writes[2].value)

\* C1: round trip.  After an identifier and a secret of 1 .. 63 characters have
\* been written with writeStringToEEPROM, in either order and over whatever the
\* store held, loadCredentials returns exactly that identifier and secret.
C1_RoundTrip ==
    WroteBothThenLoaded =>
        \A n \in 1 .. 2 : loaded[FieldIndex(writes[n].slot)] = writes[n].value

\* The secret first, then an identifier of 63 characters, over an erased store.
C1_Witness ==
    /\ WroteBothThenLoaded
    /\ writes[1].slot = "ssid"
    /\ Len(writes[1].value) = SlotWidth - 1
    /\ flash[EEPROM_SIZE - 1] = ERASED_BYTE

\* C2: truncation.  A value of 64 characters or more written to a field is
\* stored and loaded as its first 63 characters, and no loaded field written
\* by a handler is longer than 63 characters.
C2_Truncation ==
    (loaded # <<>> /\ writes # <<>> /\ Len(writes[1].value) >= SlotWidth) =>
        /\ loaded[FieldIndex(writes[1].slot)] = Prefix(writes[1].value, SlotWidth - 1)
        /\ flash[SlotAddr(writes[1].slot) + SlotWidth - 1] = 0

\* C3: slot independence.  A write to one slot leaves every byte outside that
\* slot's range as it was, and the store keeps its 128 bytes.
C3_SlotIndependence ==
    [][ (storeOps' # storeOps /\ writes' # <<>>) =>
            /\ DOMAIN flash' = Addresses
            /\ \A a \in Addresses \ SlotRange(writes'[1].slot) : flash'[a] = flash[a]
      ]_vars

\* What the claim says a slot reads as: "" when the slot is erased, else the
\* slot's bytes up to the first zero byte or 63 characters.
SlotText(mem, slot) ==
    LET bytes == [i \in 1 .. (SlotWidth - 1) |-> mem[SlotAddr(slot) + i - 1]]
    IN  IF \A a \in SlotRange(slot) : mem[a] = ERASED_BYTE THEN <<>>
        ELSE CString(bytes)

\* C4: loadCredentials is bounded by the slot.  Each loaded field is what its
\* slot holds up to the first zero byte or 63 characters, an erased store
\* loads as two empty strings, no address outside the slot is read, and the
\* load leaves the store as it was.
C4_LoadBounded ==
    loaded # <<>> =>
        /\ loaded = <<SlotText(flash, "ssid"), SlotText(flash, "pass")>>
        /\ ReadAddresses(flash, SSID_ADDR) \subseteq SsidSlot
        /\ ReadAddresses(flash, PASS_ADDR) \subseteq PassSlot
        /\ eeprom = flash

\* ---- the task claims (Spec, FairSpec, SpecSeq) ---------------------------
\* Steps of keepWiFiAlive that read a credential: wifi_ssid.length() at the
\* top of the loop, and the two c_str() arguments of WiFi.begin.
NMReadsSsid ==
    /\ sys = "running" /\ sys' = "running"
    /\ nm_pc \in {"check_ssid", "begin"} /\ nm_pc' # nm_pc
NMReadsPass ==
    /\ sys = "running" /\ sys' = "running"
    /\ nm_pc = "begin" /\ nm_pc' # nm_pc
\* WiFi.begin is called in this step.
AttemptIssued ==
    sys = "running" /\ sys' = "running" /\ nm_pc = "begin" /\ nm_pc' = "poll"

\* A field is in the middle of an onWrite: neither what it held when the
\* handler started nor the value written.
TornSsid == ble_pc = "ssid_append" /\ wifi_ssid \notin {ble_old, ble_value}
TornPass == ble_pc = "pass_append" /\ wifi_password \notin {ble_old, ble_value}

\* C5: no torn credential reads.  Whenever keepWiFiAlive reads the identifier
\* or the secret, what it reads is the whole value from before a concurrent
\* write or the whole value written, never a value in between.
C5_NoTornReads ==
    [][ (NMReadsSsid => ~TornSsid) /\ (NMReadsPass => ~TornPass) ]_vars

\* C6: idle when unconfigured.  WiFi.begin is never called while the
\* credentials in shared state are empty.
C6_IdleWhenUnconfigured ==
    [][ AttemptIssued => ~(wifi_ssid = <<>> /\ wifi_password = <<>>) ]_vars

\* C7: unbounded retry.  keepWiFiAlive never stops while the device runs; its
\* poll loop is left only once the timeout has passed, unless a poll saw the
\* network connected; an attempt that ends with the network not connected goes
\* to the backoff delay; and when the network never reports connected and the
\* identifier stays non-empty, connection attempts are issued again and
\* again, without end.
C7_UnboundedRetry ==
    /\ [](sys = "running" => nm_pc # "stopped")
    /\ [](nm_pc = "result" =>
              (nm_seen = "connected" \/ nm_elapsed >= WIFI_TIMEOUT_MS))
    /\ [][ (nm_pc = "result" /\ nm_pc' # nm_pc /\ sys' = "running"
                /\ wifiStatus # "connected") => nm_pc' = "backoff" ]_vars
    /\ (([](wifiStatus # "connected") /\ <>[](wifi_ssid # <<>>)) =>
            []<>(nm_pc = "begin"))

\* An attempt with a non-empty identifier has timed out.
C7_Witness ==
    /\ nm_pc = "result" /\ wifiBegun
    /\ nm_elapsed = WIFI_TIMEOUT_MS
    /\ wifiStatus # "connected"
    /\ wifi_ssid # <<>>

\* keepWiFiAlive lets another slice of its vTaskDelay(30000) pass.
SleepsOn == nm_pc = "idle_delay" /\ nm_pc' = "idle_delay" /\ nm_wait' < nm_wait

\* C8 as stated: immediate recovery.  Once the connection has dropped while
\* keepWiFiAlive sleeps in its poll interval, keepWiFiAlive does not sleep
\* on through the rest of the interval.
C8_ImmediateRecovery ==
    [][ (nm_dropped /\ wifiStatus # "connected") => ~SleepsOn ]_vars

\* C8 amended: recovery at the next poll.  keepWiFiAlive leaves its poll
\* interval only when the whole interval has passed, dropped connection or
\* not; the check that follows, finding the identifier non-empty and the
\* status not connected, goes to WiFi.begin with no further wait; and after
\* a drop during the sleep a new attempt is issued in the end, unless by then
\* the network is back, the identifier is empty or the device restarts.
C8_RecoveryAtNextPoll ==
    /\ [][ /\ (nm_pc = "idle_delay" /\ sys' = "running") =>
                \/ nm_pc' = "idle_delay" /\ nm_wait' >= 1 /\ nm_wait' >= nm_wait - 1
                \/ nm_pc' = "check_ssid" /\ nm_wait = 1
           /\ (nm_dropped /\ sys' = "running") => (nm_dropped' \/ nm_pc' = "check_ssid")
           /\ (nm_pc = "check_ssid" /\ nm_pc' # nm_pc /\ sys' = "running"
                   /\ wifi_ssid # <<>>) => nm_pc' = "check_status"
           /\ (nm_pc = "check_status" /\ nm_pc' # nm_pc /\ sys' = "running"
                   /\ wifiStatus # "connected") => nm_pc' = "begin"
         ]_vars
    /\ (nm_dropped ~> \/ nm_pc = "begin"
                      \/ wifiStatus = "connected"
                      \/ wifi_ssid = <<>>
                      \/ sys = "reset")

\* The connection has dropped and keepWiFiAlive has slept on, into the last
\* slice of its interval.
C8_Witness ==
    nm_dropped /\ nm_pc = "idle_delay" /\ nm_wait = 1 /\ wifiStatus # "connected"

\* Entry of PasswordCallbacks::onWrite in this step.
SecretArrives ==
    /\ sys = "running" /\ ble_pc = "idle"
    /\ ble_event' = "pass_write"
    /\ <<ble_event, ble_value, ble_pc>>' # <<ble_event, ble_value, ble_pc>>
InSecretWrite == ble_pc \in {"pass_clear", "pass_append", "pass_delay"}
\* ESP.restart() at the end of PasswordCallbacks::onWrite in this step.
RestartsAfterSecret == ble_pc = "pass_delay" /\ sys' = "reset"
\* What the store holds at the restart: the secret just written and the
\* identifier written last, each when shorter than its slot.
StoreHoldsPair ==
    /\ Fits(ble_value) => loadCredentials(flash')[2] = ble_value
    /\ (Fits(ble_value) /\ Fits(lastIdent)) => loadCredentials(flash')[1] = lastIdent

\* A handler that has started runs on to the restart and leaves only there:
\* it stores and commits the secret, waits, and restarts the device.
SecretWriteRuns ==
    /\ InSecretWrite => (InSecretWrite' \/ RestartsAfterSecret)
    /\ ble_pc' = "pass_delay" =>
           /\ ble_pc \in {"pass_append", "pass_delay"}
           /\ writes'[1] = [slot |-> "pass", value |-> ble_value]
    /\ RestartsAfterSecret => StoreHoldsPair

\* C9 as stated: restart on completed pair.  Every write of the secret that
\* arrives while the identifier in shared state is non-empty starts the
\* handler that stores and commits the secret and ends in the restart, with
\* the store then holding the identifier written last and this secret.
C9_RestartOnSecretWrite ==
    [][ /\ (SecretArrives /\ wifi_ssid # <<>>) => ble_pc' = "pass_clear"
        /\ SecretWriteRuns ]_vars

\* C9 amended: the same of every write of a secret that is not empty, and
\* the handler does reach the restart.
C9_RestartOnNonEmptySecret ==
    /\ [][ /\ (SecretArrives /\ wifi_ssid # <<>> /\ Len(ble_value') > 0) =>
                 ble_pc' = "pass_clear"
           /\ SecretWriteRuns ]_vars
    /\ (InSecretWrite ~> sys = "reset")

\* The secret is stored, the identifier was written before it, and the
\* grace delay runs.
C9_Witness ==
    /\ ble_pc = "pass_delay"
    /\ Len(writes) = 2 /\ writes[2].slot = "ssid"
    /\ lastIdent # <<>>

\* The client wrote identifier I and then secret S, each of 1 .. 63
\* characters, the device restarted and booted, and no write has been made
\* since.
BootedAfterPair ==
    /\ sys = "running"
    /\ loaded # <<>>
    /\ ble_pc = "idle"
    /\ Len(writes) = 2
    /\ writes[1].slot = "pass" /\ Fits(writes[1].value)
    /\ writes[2].slot = "ssid" /\ Fits(writes[2].value)

\* C10: persistence across restart.  After identifier I and then secret S
\* were written and the device restarted, boot has loaded exactly (I, S) into
\* wifi_ssid and wifi_password when keepWiFiAlive starts, and they are what
\* its connection attempts read, from the first one on, for as long as no
\* further write is made.
C10_PersistenceAcrossRestart ==
    BootedAfterPair =>
        /\ loaded = <<writes[2].value, writes[1].value>>
        /\ <<wifi_ssid, wifi_password>> = <<writes[2].value, writes[1].value>>

\* The first attempt after the restart is being polled, with an identifier
\* of 63 characters.
C10_Witness ==
    /\ BootedAfterPair
    /\ nm_pc = "poll" /\ wifiBegun
    /\ Len(wifi_ssid) = SlotWidth - 1

\* ---- the later claims ---------------------------------------------------
\* C11: advertising availability.  While the device runs and no client is
\* link-connected it is advertising; every link disconnect clears
\* device_connected and starts advertising again; and whenever no client is
\* connected (and the BLE task is between callbacks) a client can connect.
C11_AdvertisingAvailability ==
    /\ []((sys = "running" /\ ~device_connected) => advertising)
    /\ [][ (device_connected /\ ~device_connected' /\ sys' = "running") =>
               advertising' ]_vars
    /\ []((sys = "running" /\ ~device_connected /\ ble_pc = "idle") =>
              ENABLED OnConnect)

\* A client wrote the identifier and dropped before writing the secret; the
\* device advertises again.
C11_Witness ==
    /\ sys = "running" /\ ble_pc = "idle"
    /\ ~device_connected /\ advertising
    /\ Len(writes) = 1 /\ writes[1].slot = "ssid"

\* C12: status mapping.  At every evaluation of the blinkLED loop the branch
\* taken depends on WiFi.status() and device_connected only: the LED is held
\* on when WiFi is connected, whatever device_connected is; otherwise it
\* blinks with 150 ms halves when device_connected, and with 1000 ms halves
\* when not; and a step of blinkLED changes nothing but the LED.
C12_StatusMapping ==
    /\ [][ /\ (led_pc = "check_wifi" /\ led_pc' # led_pc /\ sys' = "running") =>
                 IF wifiStatus = "connected"
                 THEN /\ led_pattern' = "steady" /\ led_out' = "high"
                      /\ led_pc' = "steady_delay"
                 ELSE led_pc' = "check_link"
           /\ (led_pc = "check_link" /\ led_pc' # led_pc /\ sys' = "running") =>
                 /\ led_out' = "high"
                 /\ <<led_pattern', led_delay'>> =
                        IF device_connected THEN <<"fast", LED_FAST_MS>>
                                            ELSE <<"slow", LED_SLOW_MS>>
           /\ (led_pc = "on_delay" /\ led_pc' # led_pc /\ sys' = "running") =>
                 /\ led_out' = "low" /\ led_delay' = led_delay
                 /\ led_pattern' = led_pattern
           /\ (led_pc = "steady_delay" /\ sys' = "running") => led_out' = "high"
           /\ (ledVars' # ledVars /\ sys = "running" /\ sys' = "running") =>
                 UNCHANGED LedOnly
         ]_vars
    /\ [](led_pc = "steady_delay" => (led_pattern = "steady" /\ led_out = "high"))

\* WiFi is connected and a BLE client too: the LED is held on.
C12_Witness ==
    /\ led_pc = "steady_delay" /\ led_pattern = "steady" /\ led_out = "high"
    /\ wifiStatus = "connected" /\ device_connected

\* C13: identifier read-back in sync.  Whenever the device runs and no
\* callback is in progress, after boot and after any writes to the SSID
\* characteristic, the value a client reads from it is wifi_ssid.
C13_ReadBackInSync ==
    (sys = "running" /\ ble_pc = "idle") => ssid_char = wifi_ssid

\* C14: credential changes imply restart.  Every WiFi.begin is called with
\* exactly the identifier and secret that setup() loaded at the current boot:
\* what a write handler has changed since is not used before a restart.
C14_ChangesImplyRestart ==
    [][ AttemptIssued => <<wifi_ssid, wifi_password>> = bootCreds ]_vars

\* C15: restart only on a completed pair.  The running device restarts only
\* at the end of a secret write, and only when the identifier in shared state
\* is non-empty: a secret written while the identifier is empty is stored
\* without a restart.
C15_RestartOnlyOnPair ==
    [][ (sys = "running" /\ sys' = "reset") =>
            (ble_pc = "pass_delay" /\ wifi_ssid # <<>>) ]_vars

\* Length in ms of the vTaskDelay keepWiFiAlive is in, 0 when in none.
NMDelayMs ==
    IF nm_pc = "backoff" THEN BACKOFF_DELAY_MS
    ELSE IF nm_pc = "idle_delay" THEN IDLE_DELAY_MS
    ELSE 0

\* C16: backoff then connecting.  When the 20 s penalty delay after a failed
\* attempt is over, keepWiFiAlive goes on to its next attempt with no further
\* wait: it is in no other delay.
C16_BackoffThenConnecting ==
    [][ (nm_pc = "backoff" /\ nm_pc' # nm_pc /\ sys' = "running") =>
            NMDelayMs' = 0 ]_vars

\* The poll loop tests its condition every 100 ms and is never in its
\* delay beyond the timeout.
PollsEvery100ms ==
    (nm_pc = "poll" /\ nm_pc' = "poll" /\ nm_elapsed' # nm_elapsed) =>
        /\ nm_elapsed' = nm_elapsed + POLL_DELAY_MS
        /\ nm_elapsed' <= WIFI_TIMEOUT_MS
\* keepWiFiAlive leaves the attempt in this step.
AttemptEnds == nm_pc = "result" /\ nm_pc' # nm_pc /\ sys' = "running"

\* C17 as stated: every connection attempt concludes.  The attempt is polled
\* every 100 ms for at most WIFI_TIMEOUT_MS, it ends in the connected state
\* when the last poll saw the network connected and in backoff otherwise, and
\* the poll loop is always left in the end.
C17_AttemptConcludes ==
    /\ [][ /\ PollsEvery100ms
           /\ AttemptEnds =>
                 nm_pc' = IF nm_seen = "connected" THEN "idle_delay" ELSE "backoff"
         ]_vars
    /\ [](nm_pc \in {"poll", "result"} => nm_elapsed <= WIFI_TIMEOUT_MS)
    /\ (nm_pc = "poll" ~> nm_pc # "poll")

\* C17 amended: the same, but where the attempt ends is decided by the
\* WiFi.status() read after the poll loop, not by what the last poll saw; the
\* loop is left only when a poll saw the network connected or the timeout
\* has passed.
C17_AttemptConcludesByFinalStatus ==
    /\ [][ /\ PollsEvery100ms
           /\ AttemptEnds =>
                 nm_pc' = IF wifiStatus = "connected" THEN "idle_delay" ELSE "backoff"
         ]_vars
    /\ [](nm_pc \in {"poll", "result"} => nm_elapsed <= WIFI_TIMEOUT_MS)
    /\ [](nm_pc = "result" =>
              (nm_seen = "connected" \/ nm_elapsed = WIFI_TIMEOUT_MS))
    /\ (nm_pc = "poll" ~> nm_pc # "poll")

\* The last poll of an attempt, 100 ms before the timeout.
C17_Witness ==
    /\ nm_pc = "poll" /\ wifiBegun
    /\ nm_elapsed = WIFI_TIMEOUT_MS - POLL_DELAY_MS
    /\ wifiStatus # "connected"

\* C18: best-effort persistence.  When the commit of a field write fails, the
\* flash image keeps its old content; for the identifier the handler returns as
\* on success, wifi_ssid holds the written value (as do the characteristic and
\* the RAM buffer of the store), and keepWiFiAlive, blinkLED, the link and the
\* network are left as they were; for the secret the handler restarts the
\* device as on success.
CommitFails == storeOps' # storeOps /\ commit_failed'

C18_BestEffortPersistence ==
    [][ CommitFails =>
          /\ flash' = flash
          /\ \/ /\ writes'[1].slot = "ssid"
                /\ sys' = "running"
                /\ wifi_ssid' = writes'[1].value
                /\ ssid_char' = wifi_ssid'
                /\ readStringFromEEPROM(eeprom', SSID_ADDR) = wifi_ssid'
                /\ UNCHANGED <<wifi_password, linkVars, netVars, nmVars, ledVars>>
             \/ /\ writes'[1].slot = "pass"
                /\ sys = "running"
                /\ sys' = "reset" ]_vars

\* The identifier in RAM is the one whose commit failed, the flash image holds
\* another one, and keepWiFiAlive is using the new one for an attempt.
C18_Witness ==
    /\ sys = "running"
    /\ commit_failed
    /\ wifi_ssid # <<>>
    /\ wifi_ssid = lastIdent
    /\ loadCredentials(flash)[1] # wifi_ssid
    /\ nm_pc = "poll"
    /\ wifiBegun

\* C19: connect only when needed.  keepWiFiAlive calls WiFi.begin only from the
\* statement the status check leads to when it reads a status other than
\* connected, and it comes to the status check only from the test of wifi_ssid
\* when that is non-empty, in the same loop iteration; a status check that reads
\* connected starts the full 30 s delay of the loop, during which no attempt is
\* issued, and after which the loop starts over with the test of wifi_ssid.
IssuesAttempt == nm_pc = "begin" /\ nm_pc' = "poll"

C19_ConnectOnlyWhenNeeded ==
    [][ /\ (wifiBegun' # wifiBegun /\ wifiBegun') => IssuesAttempt
        /\ (nm_pc' = "begin" /\ nm_pc # "begin") =>
              (nm_pc = "check_status" /\ wifiStatus # "connected")
        /\ (nm_pc' = "check_status" /\ nm_pc # "check_status") =>
              (nm_pc = "check_ssid" /\ Len(wifi_ssid) > 0)
        /\ (nm_pc = "check_status" /\ nm_pc' # nm_pc /\ sys' = "running"
              /\ wifiStatus = "connected") =>
              (nm_pc' = "idle_delay" /\ nm_wait' = DelaySlices)
        /\ (nm_pc = "idle_delay" /\ sys' = "running") =>
              /\ ~IssuesAttempt
              /\ nm_pc' \in {"idle_delay", "check_ssid"}
              /\ nm_pc' = "check_ssid" => nm_wait = 1 ]_vars

\* keepWiFiAlive has found a non-empty wifi_ssid and is about to read a status
\* that is connected.
C19_Witness ==
    /\ sys = "running"
    /\ nm_pc = "check_status"
    /\ wifiStatus = "connected"
    /\ wifiBegun
    /\ Len(wifi_ssid) > 0

\* C20: an empty write is a no-op.  A handler called with a value of length 0
\* returns at once: wifi_ssid, wifi_password, the RAM buffer and every byte of
\* the flash image are as before, the device keeps running and no store
\* operation is recorded; a write that does restart the device is a write of a
\* non-empty secret, which the flash image then holds.
EmptyWrite ==
    /\ storeOps' # storeOps
    /\ \/ ble_event' = "ssid_write" /\ ssid_char' = <<>>
       \/ ble_event' = "pass_write"

C20_EmptyWriteIsNoOp ==
    [][ /\ EmptyWrite =>
              /\ UNCHANGED <<wifi_ssid, wifi_password, eeprom, flash, writes, sys>>
              /\ \A a \in Addresses : flash'[a] = flash[a]
        /\ (storeOps' # storeOps /\ sys' = "reset") =>
              /\ writes' # <<>>
              /\ writes'[1].slot = "pass"
              /\ Len(writes'[1].value) > 0
              /\ readStringFromEEPROM(flash', PASS_ADDR) = writes'[1].value ]_vars

\* An empty secret was written while an identifier was set and stored, and the
\* device is still running.
C20_Witness ==
    /\ sys = "running"
    /\ ble_event = "pass_write"
    /\ storeOps > 0
    /\ Len(wifi_ssid) > 0
    /\ loadCredentials(flash)[1] = wifi_ssid

=============================================================================
